---- MODULE Spec2Model ----
(***************************************************************************)
(* Model of the alignment service of msa_gradio: run_alignment and         *)
(* show_history (src/app.py) over the history table created by             *)
(* initialize_db (src/init_db.py).                                         *)
(*                                                                         *)
(* A call of run_alignment is split at the points where it touches state   *)
(* other calls can see: the read of the session dictionary (line 48), the  *)
(* write of the session dictionary and the staging of the input (lines     *)
(* 50-74), the external tool (lines 76-108), and the read of the output    *)
(* with the INSERT into the history table (lines 110-127).                 *)
(***************************************************************************)
EXTENDS Integers, Sequences, FiniteSets, TLC

\* ------------------------------------------------------------- bounds
\* Submissions in a run of Spec.
MaxCalls == 2
\* Submissions in a run of SpecLong, and how many of them may deviate: by a
\* failed history append, or by being made while another call is running.
MaxLongCalls == 21
MaxLongDeviations == 1

\* ------------------------------------------------- program constants
\* LIMIT 20 of the history query.
HistoryLimit == 20

\* datetime.now(): every call of a run falls into the same second, the case in
\* which the timestamp part of a file name distinguishes nothing.
Now == 0

\* Python's None where an identity is expected.
None == 0
\* Python's None where text is expected (e.stdout when stdout was not piped).
PyNone == "<None>"

\* gr.State dictionaries of the clients; NoneState is a call whose
\* current_session_state argument is None.
Contexts == {1, 2}
NoneState == 0
LongContext == CHOOSE c \in Contexts : \A d \in Contexts : c <= d

SupportedTools == {"MAFFT", "MUSCLE"}
ToolChoices == SupportedTools \cup {"CLUSTAL"}
\* Uploaded file argument: None, an object without a name, a temp file.
FileChoices == {"None", "NoName", "Ok"}

\* ------------------------------------------------------------ helpers
RECURSIVE Reverse(_)
Reverse(s) == IF s = <<>> THEN <<>> ELSE Append(Reverse(Tail(s)), Head(s))

Take(s, n) == SubSeq(s, 1, IF Len(s) < n THEN Len(s) ELSE n)

\* Python truthiness of a text value, and the `or` of two values.
Truthy(x) == x # "" /\ x # PyNone
PyOr(a, b) == IF Truthy(a) THEN a ELSE b

\* f"Return code: {e.returncode}"
ReturnCodeText(rc) == IF rc = 1 THEN "Return code: 1" ELSE "Return code: 2"

\* Mutant: the captured stderr is left out of the detail.
ErrorDetailNoStderr(stderr, stdout, rc) == PyOr(stdout, ReturnCodeText(rc))

\* error_detail = e.stderr or e.stdout or f"Return code: {e.returncode}"
ErrorDetail(stderr, stdout, rc) == PyOr(stderr, PyOr(stdout, ReturnCodeText(rc)))

\* os.path.join("uploads", f"input_{task_id}_{timestamp_str}.fasta")
InputPath(tid, ts) == [dir |-> "uploads/", role |-> "input", tid |-> tid, ts |-> ts]
\* os.path.join("results", f"result_{task_id}_{timestamp_str}.aln")
OutputPath(tid, ts) == [dir |-> "results/", role |-> "result", tid |-> tid, ts |-> ts]
\* The artifact value None of a return without a download.
NonePath == [dir |-> "", role |-> "None", tid |-> None, ts |-> 0]
\* REPLACE(path, 'uploads/', '') and REPLACE(path, 'results/', '')
StripDir(p, d) == IF p.dir = d THEN [p EXCEPT !.dir = ""] ELSE p

\* The three values a call returns; kind names the message, tool and detail
\* are what the message interpolates.
Msg(kind, tool, detail) == [kind |-> kind, tool |-> tool, detail |-> detail]
Ret(text, file, status) == [text |-> text, file |-> file, status |-> status]
NoRet == Ret(Msg("", "", ""), NonePath, Msg("Pending", "", ""))

VARIABLES
    ctx,      \* ctx[c]: current_session_state['session_id'] of client c, or None
    calls,    \* the calls of run_alignment, in submission order
    uploads,  \* the files under uploads/
    results,  \* the files under results/, with their content
    schema,   \* whether the history table exists
    ledger,   \* the rows of the history table, in id order
    nextSid,  \* the next uuid4 for a session
    nextTid,  \* the next uuid4 for a task
    shown     \* what show_history returned, when the step just taken was one

vars == <<ctx, calls, uploads, results, schema, ledger, nextSid, nextTid, shown>>

NoShown == [ctx |-> NoneState, kind |-> "NotCalled", sid |-> None, rows |-> <<>>, queried |-> FALSE]

Init ==
    /\ ctx = [c \in Contexts |-> None]
    /\ calls = <<>>
    /\ uploads = {}
    /\ results = <<>>
    /\ schema = FALSE
    /\ ledger = <<>>
    /\ nextSid = 1
    /\ nextTid = 1
    /\ shown = NoShown

\* ------------------------------------------------------ derived state
Calls == DOMAIN calls
InFlight == {i \in Calls : calls[i].pc # "done"}
Kind(i) == calls[i].ret.status.kind
\* The calls that completed without a history row.
Unsaved == {i \in Calls : calls[i].pc = "done" /\ Kind(i) = "Done" /\ calls[i].saveLog # "Saved"}

\* The session dictionary a call works on: the client's, or the local {} that
\* replaces a None argument.
StateGet(c) == IF c = NoneState THEN None ELSE ctx[c]

Finish(i, r) == [calls EXCEPT ![i].pc = "done", ![i].ret = r]

\* -------------------------------------------------------- run_alignment
NewCall(c, f, t) ==
    [ctx |-> c, file |-> f, tool |-> t, pc |-> "resolve",
     sid |-> StateGet(c), minted |-> FALSE, tid |-> None, ts |-> Now,
     pending |-> InFlight, started |-> 0, saveLog |-> "",
     ret |-> NoRet]

\* Mutant: the session id is minted and stored before the file is looked at.
run_alignment_enter_mints_first(c, f, t) ==
    /\ calls' = Append(calls,
           IF f = "None"
           THEN [NewCall(c, f, t) EXCEPT
                   !.pc = "done", !.sid = None,
                   !.ret = Ret(Msg("PleaseUpload", "", ""), NonePath, Msg("NoFile", "", ""))]
           ELSE NewCall(c, f, t))
    /\ ctx' = IF c # NoneState /\ StateGet(c) = None THEN [ctx EXCEPT ![c] = nextSid] ELSE ctx
    /\ nextSid' = IF StateGet(c) = None THEN nextSid + 1 ELSE nextSid
    /\ shown' = NoShown
    /\ UNCHANGED <<uploads, results, schema, ledger, nextTid>>

\* Lines 36-48: a None state is replaced by a local {}, a missing file is
\* rejected, and session_id is read from the state dictionary.
run_alignment_enter(c, f, t) ==
    /\ calls' = Append(calls,
           IF f = "None"
           THEN [NewCall(c, f, t) EXCEPT
                   !.pc = "done", !.sid = None,
                   !.ret = Ret(Msg("PleaseUpload", "", ""), NonePath, Msg("NoFile", "", ""))]
           ELSE NewCall(c, f, t))
    /\ shown' = NoShown
    /\ UNCHANGED <<ctx, uploads, results, schema, ledger, nextSid, nextTid>>

\* Mutant: a session id is minted whatever the dictionary held.
AlwaysMint(i) == TRUE

\* Line 50: no session id was found in the dictionary.
NeedsMint(i) == calls[i].sid = None

\* Lines 50-55: the session id the call goes on with.
ResolvedSid(i) == IF NeedsMint(i) THEN nextSid ELSE calls[i].sid

\* Lines 65-74 succeed: the file has a name and both opens, the read and the
\* write went through.
StageOk(i, io) == calls[i].file = "Ok" /\ io = "Ok"

\* Mutant: the task id is made of the clock reading alone.
TaskIdFromClock == Now + 1

\* Line 57: uuid.uuid4().hex, a value no earlier call has been given.
NewTaskId == nextTid

\* Lines 50-74: mint and store a session id when none was read, allocate the
\* task id and the two paths, and copy the upload to the input path.
\* io: "Ok", "OpenFail" (an open raised), "WriteFail" (read or write raised
\* after the input path was created).
run_alignment_stage(i, io) ==
    /\ calls[i].pc = "resolve"
    /\ LET c == calls[i].ctx
           mint == NeedsMint(i)
           inp == InputPath(NewTaskId, calls[i].ts)
           staged == [calls EXCEPT ![i].sid = ResolvedSid(i), ![i].minted = mint,
                                   ![i].tid = NewTaskId]
       IN /\ ctx' = IF mint /\ c # NoneState THEN [ctx EXCEPT ![c] = nextSid] ELSE ctx
          /\ nextSid' = IF mint THEN nextSid + 1 ELSE nextSid
          /\ nextTid' = nextTid + 1
          /\ uploads' = IF calls[i].file = "Ok" /\ io \in {"Ok", "WriteFail"}
                        THEN uploads \cup {inp} ELSE uploads
          /\ calls' = IF StageOk(i, io)
                      THEN [staged EXCEPT ![i].pc = "staged"]
                      ELSE [staged EXCEPT ![i].pc = "done",
                              ![i].ret = Ret(Msg("UploadError", "", "e"), NonePath,
                                             Msg("SaveFail", "", ""))]
    /\ shown' = NoShown
    /\ UNCHANGED <<results, schema, ledger>>

\* What the environment does to the tool branch of a call: opening the output
\* file for MAFFT's stdout raises (FileNotFoundError, or another OSError),
\* starting the executable raises (FileNotFoundError, or another error), or
\* the process runs and exits with rc, stderr text err and piped stdout out.
Outcome(kind, rc, err, out) == [kind |-> kind, rc |-> rc, err |-> err, out |-> out]
Raises == {Outcome(k, 0 - 1, "", "") : k \in {"ExecNotFound", "ExecError"}}
MafftOutcomes ==
    {Outcome(k, 0 - 1, "", "") : k \in {"OpenNotFound", "OpenError"}}
    \cup Raises
    \cup {Outcome("Exit", 0, "", PyNone)}
    \cup {Outcome("Exit", rc, err, PyNone) : rc \in {1, 2}, err \in {"", "X"}}
MuscleOutcomes ==
    Raises
    \cup {Outcome("Exit", 0, "", "")}
    \cup {Outcome("Exit", rc, err, out) : rc \in {1, 2}, err \in {"", "X"}, out \in {"", "O"}}
ToolSucceeds(o) == o.kind = "Exit" /\ o.rc = 0

\* The content the tool leaves in the output file when it exits 0.
Alignment(tool) == IF tool = "MAFFT" THEN "aln-mafft" ELSE "aln-muscle"

\* Lines 97-108: the except clauses, by what was raised.
ToolFailure(tool, command0, o) ==
    IF o.kind \in {"OpenNotFound", "ExecNotFound"}
    THEN Ret(Msg("CommandNotFound", tool, command0), NonePath, Msg("ToolNotFound", tool, ""))
    ELSE IF o.kind = "Exit"
    THEN Ret(Msg("ToolError", tool, ErrorDetail(o.err, o.out, o.rc)), NonePath,
             Msg("ToolRunFail", tool, ""))
    ELSE Ret(Msg("Unexpected", "", "e"), NonePath, Msg("AlignException", "", ""))

\* subprocess.run got as far as starting the process.
Started(o) == IF o.kind = "Exit" THEN 1 ELSE 0

\* Mutant: a failed tool step is tried a second time.
AfterToolRetries(i, o, command0) ==
    IF ToolSucceeds(o)
    THEN [calls EXCEPT ![i].pc = "ran", ![i].started = @ + Started(o)]
    ELSE IF calls[i].started + Started(o) < 2
    THEN [calls EXCEPT ![i].started = @ + Started(o)]
    ELSE [calls EXCEPT ![i].pc = "done", ![i].started = @ + Started(o),
                       ![i].ret = ToolFailure(calls[i].tool, command0, o)]

\* Mutant: a failed tool step never returns to the caller.
AfterToolNeverReturns(i, o, command0) ==
    IF ToolSucceeds(o)
    THEN [calls EXCEPT ![i].pc = "ran", ![i].started = @ + Started(o)]
    ELSE [calls EXCEPT ![i].pc = "running", ![i].started = @ + Started(o)]

\* Lines 79-108: the call after its tool step; started counts the processes
\* that were started for it.
AfterTool(i, o, command0) ==
    IF ToolSucceeds(o)
    THEN [calls EXCEPT ![i].pc = "ran", ![i].started = @ + Started(o)]
    ELSE [calls EXCEPT ![i].pc = "done", ![i].started = @ + Started(o),
                       ![i].ret = ToolFailure(calls[i].tool, command0, o)]

\* Lines 81-86: the output file is opened for writing (created empty), mafft
\* runs with its stdout redirected into it.
run_alignment_mafft(i, o) ==
    /\ calls[i].pc = "staged"
    /\ calls[i].tool = "MAFFT"
    /\ o \in MafftOutcomes
    /\ LET out == OutputPath(calls[i].tid, calls[i].ts)
       IN results' = IF o.kind \in {"OpenNotFound", "OpenError"} THEN results
                     ELSE IF ToolSucceeds(o) THEN (out :> Alignment("MAFFT")) @@ results
                     ELSE (out :> "") @@ results
    /\ calls' = AfterTool(i, o, "mafft")
    /\ shown' = NoShown
    /\ UNCHANGED <<ctx, uploads, schema, ledger, nextSid, nextTid>>

\* Mutant: every tool other than MAFFT is run as MUSCLE.
IsMuscleElse(tool) == tool # "MAFFT"

\* Line 87: elif tool == "MUSCLE".
IsMuscle(tool) == tool = "MUSCLE"

\* Lines 87-93: muscle runs with -in and -out and writes the output file itself.
run_alignment_muscle(i, o) ==
    /\ calls[i].pc = "staged"
    /\ IsMuscle(calls[i].tool)
    /\ o \in MuscleOutcomes
    /\ LET out == OutputPath(calls[i].tid, calls[i].ts)
       IN results' = IF ToolSucceeds(o) THEN (out :> Alignment("MUSCLE")) @@ results
                     ELSE results
    /\ calls' = AfterTool(i, o, "muscle")
    /\ shown' = NoShown
    /\ UNCHANGED <<ctx, uploads, schema, ledger, nextSid, nextTid>>

\* Lines 94-95: any other tool selection.
run_alignment_invalid(i) ==
    /\ calls[i].pc = "staged"
    /\ calls[i].tool # "MAFFT" /\ ~IsMuscle(calls[i].tool)
    /\ calls' = Finish(i, Ret(Msg("InvalidChoice", "", ""), NonePath, Msg("InvalidTool", "", "")))
    /\ shown' = NoShown
    /\ UNCHANGED <<ctx, uploads, results, schema, ledger, nextSid, nextTid>>

\* ----------------------------------------------------------- save_to_db
Row(id, sid, tid, tool, inp, out, ts) ==
    [id |-> id, session_id |-> sid, task_id |-> tid, tool |-> tool,
     input_file |-> inp, output_file |-> out, timestamp |-> ts]

\* The INSERT commits: the table exists, the database took the write, and no
\* row holds the task id (task_id is UNIQUE).
InsertOk(tid, dbOk) ==
    schema /\ dbOk /\ \A k \in DOMAIN ledger : ledger[k].task_id # tid

\* Lines 30 and 32: what save_to_db logs.
SaveLog(tid, dbOk) ==
    IF InsertOk(tid, dbOk) THEN "Saved"
    ELSE IF ~schema THEN "NoTable"
    ELSE "DbError"

\* Mutant: the output path is stored in both path columns.
save_to_db_output_twice(sid, tid, tool, inp, out, ts, dbOk) ==
    IF InsertOk(tid, dbOk)
    THEN Append(ledger, Row(Len(ledger) + 1, sid, tid, tool, out, out, ts))
    ELSE ledger

\* Mutant: the failed read is followed by the save all the same.
AfterReadErrorSaves(i) ==
    Append(ledger, Row(Len(ledger) + 1, calls[i].sid, calls[i].tid, calls[i].tool,
                       InputPath(calls[i].tid, calls[i].ts),
                       OutputPath(calls[i].tid, calls[i].ts), Now))

\* Lines 117-119: the ledger after a failed read of the output: the call
\* returns before save_to_db.
AfterReadError(i) == ledger

\* Lines 20-32: the ledger after the call. The id is AUTOINCREMENT; a
\* sqlite3.Error is logged and dropped.
save_to_db(sid, tid, tool, inp, out, ts, dbOk) ==
    IF InsertOk(tid, dbOk)
    THEN Append(ledger, Row(Len(ledger) + 1, sid, tid, tool, inp, out, ts))
    ELSE ledger

\* Mutant: a failed history append is returned to the caller as a failure.
run_alignment_finish_downgrades(i, readOk, dbOk) ==
    /\ calls[i].pc = "ran"
    /\ LET c == calls[i]
           inp == InputPath(c.tid, c.ts)
           out == OutputPath(c.tid, c.ts)
       IN IF readOk /\ out \in DOMAIN results
          THEN /\ ledger' = save_to_db(c.sid, c.tid, c.tool, inp, out, Now, dbOk)
               /\ calls' = [calls EXCEPT ![i].pc = "done",
                              ![i].saveLog = SaveLog(c.tid, dbOk),
                              ![i].ret = IF InsertOk(c.tid, dbOk)
                                         THEN Ret(Msg("Result", "", results[out]), out,
                                                  Msg("Done", c.tool, ""))
                                         ELSE Ret(Msg("Unexpected", "", "e"), NonePath,
                                                  Msg("AlignException", "", ""))]
          ELSE /\ ledger' = AfterReadError(i)
               /\ calls' = Finish(i, Ret(Msg("ReadError", "", ""), NonePath,
                                         Msg("ReadFail", "", "")))
    /\ shown' = NoShown
    /\ UNCHANGED <<ctx, uploads, results, schema, nextSid, nextTid>>

\* Lines 110-127: read the output file, save the task to the history, return
\* the result.
run_alignment_finish(i, readOk, dbOk) ==
    /\ calls[i].pc = "ran"
    /\ LET c == calls[i]
           inp == InputPath(c.tid, c.ts)
           out == OutputPath(c.tid, c.ts)
       IN IF readOk /\ out \in DOMAIN results
          THEN /\ ledger' = save_to_db(c.sid, c.tid, c.tool, inp, out, Now, dbOk)
               /\ calls' = [calls EXCEPT ![i].pc = "done",
                              ![i].saveLog = SaveLog(c.tid, dbOk),
                              ![i].ret = Ret(Msg("Result", "", results[out]), out,
                                             Msg("Done", c.tool, ""))]
          ELSE /\ ledger' = AfterReadError(i)
               /\ calls' = Finish(i, Ret(Msg("ReadError", "", ""), NonePath,
                                         Msg("ReadFail", "", "")))
    /\ shown' = NoShown
    /\ UNCHANGED <<ctx, uploads, results, schema, nextSid, nextTid>>

\* --------------------------------------------------------- show_history
Columns(page) ==
    [k \in 1..Len(page) |->
       [timestamp |-> page[k].timestamp, tool |-> page[k].tool,
        input |-> StripDir(page[k].input_file, "uploads/"),
        output |-> StripDir(page[k].output_file, "results/")]]

\* Mutant: ORDER BY id, oldest first.
SelectAscending(sid) ==
    Columns(Take(SelectSeq(ledger, LAMBDA r : r.session_id = sid), HistoryLimit))

\* Mutant: no WHERE clause.
SelectAllSessions(sid) == Columns(Take(Reverse(ledger), HistoryLimit))

\* Lines 148-157: the rows of one session, newest id first, at most 20, with
\* the directory prefixes removed. The ledger is in id order.
Select(sid) ==
    LET mine == SelectSeq(ledger, LAMBDA r : r.session_id = sid)
        desc == Reverse(mine)
        page == Take(desc, HistoryLimit)
    IN Columns(page)

Shown(c, kind, sid, rows, queried) ==
    [ctx |-> c, kind |-> kind, sid |-> sid, rows |-> rows, queried |-> queried]

\* Mutant: the table is queried before the session id is looked at.
show_history_queries_first(c, dbOk) ==
    /\ LET sid == StateGet(c)
       IN shown' =
            IF ~(schema /\ dbOk) THEN Shown(c, "DbError", sid, <<>>, TRUE)
            ELSE IF sid = None THEN Shown(c, "NoSession", None, <<>>, TRUE)
            ELSE IF Select(sid) = <<>> THEN Shown(c, "Empty", sid, <<>>, TRUE)
            ELSE Shown(c, "Table", sid, Select(sid), TRUE)
    /\ UNCHANGED <<ctx, calls, uploads, results, schema, ledger, nextSid, nextTid>>

\* Mutant: an empty result is rendered as a table like any other.
show_history_no_empty_check(c, dbOk) ==
    /\ LET sid == StateGet(c)
       IN shown' =
            IF sid = None THEN Shown(c, "NoSession", None, <<>>, FALSE)
            ELSE IF ~(schema /\ dbOk) THEN Shown(c, "DbError", sid, <<>>, TRUE)
            ELSE Shown(c, "Table", sid, Select(sid), TRUE)
    /\ UNCHANGED <<ctx, calls, uploads, results, schema, ledger, nextSid, nextTid>>

\* Lines 131-168.
show_history(c, dbOk) ==
    /\ LET sid == StateGet(c)
       IN shown' =
            IF sid = None THEN Shown(c, "NoSession", None, <<>>, FALSE)
            ELSE IF ~(schema /\ dbOk) THEN Shown(c, "DbError", sid, <<>>, TRUE)
            ELSE IF Select(sid) = <<>> THEN Shown(c, "Empty", sid, <<>>, TRUE)
            ELSE Shown(c, "Table", sid, Select(sid), TRUE)
    /\ UNCHANGED <<ctx, calls, uploads, results, schema, ledger, nextSid, nextTid>>

\* --------------------------------------------------------- initialize_db
\* Mutant: the table is dropped and created again.
initialize_db_recreates ==
    /\ schema' = TRUE
    /\ ledger' = <<>>
    /\ shown' = NoShown
    /\ UNCHANGED <<ctx, calls, uploads, results, nextSid, nextTid>>

\* src/init_db.py: CREATE TABLE IF NOT EXISTS history.
initialize_db ==
    /\ schema' = TRUE
    /\ shown' = NoShown
    /\ UNCHANGED <<ctx, calls, uploads, results, ledger, nextSid, nextTid>>

\* ------------------------------------------------------- specifications
\* Clients are numbered in the order of their first submission.
Known(c) == c = NoneState \/ \A d \in Contexts : d < c => \E i \in Calls : calls[i].ctx = d

\* Any clients, any inputs, any failures, any overlap of the calls.
Next ==
    \/ \E c \in Contexts \cup {NoneState}, f \in FileChoices, t \in ToolChoices :
          /\ Len(calls) < MaxCalls
          /\ Known(c)
          /\ run_alignment_enter(c, f, t)
    \/ \E i \in InFlight, io \in {"Ok", "OpenFail", "WriteFail"} : run_alignment_stage(i, io)
    \/ \E i \in InFlight, o \in MafftOutcomes : run_alignment_mafft(i, o)
    \/ \E i \in InFlight, o \in MuscleOutcomes : run_alignment_muscle(i, o)
    \/ \E i \in InFlight : run_alignment_invalid(i)
    \/ \E i \in InFlight, readOk \in BOOLEAN, dbOk \in BOOLEAN :
          run_alignment_finish(i, readOk, dbOk)
    \/ \E c \in Contexts \cup {NoneState}, dbOk \in BOOLEAN : show_history(c, dbOk)
    \/ initialize_db

Spec == Init /\ [][Next]_vars

\* The calls that were submitted while another call was running.
Overlapping == {i \in Calls : calls[i].pending # {}}
Deviations == Cardinality(Unsaved) + Cardinality(Overlapping)

\* One client that leaves the tool selection at its default (line 182) and
\* submits a valid file again and again, a call after the previous one
\* returned or, a few times, while it is running; every step succeeds except
\* that a history append may fail.
NextLong ==
    \/ /\ Len(calls) < MaxLongCalls
       /\ \/ InFlight = {}
          \/ Cardinality(InFlight) = 1 /\ Deviations < MaxLongDeviations
       /\ run_alignment_enter(LongContext, "Ok", "MAFFT")
    \/ \E i \in InFlight : run_alignment_stage(i, "Ok")
    \/ \E i \in InFlight : run_alignment_mafft(i, Outcome("Exit", 0, "", PyNone))
    \/ \E i \in InFlight, dbOk \in BOOLEAN :
          /\ IF InsertOk(calls[i].tid, dbOk) THEN TRUE
             ELSE Deviations < MaxLongDeviations
          /\ run_alignment_finish(i, TRUE, dbOk)
    \/ show_history(LongContext, TRUE)
    \/ initialize_db

SpecLong == Init /\ [][NextLong]_vars

\* The next step of call i, whatever the environment makes of it.
CallStep(i) ==
    /\ i \in InFlight
    /\ \/ \E io \in {"Ok", "OpenFail", "WriteFail"} : run_alignment_stage(i, io)
       \/ \E o \in MafftOutcomes : run_alignment_mafft(i, o)
       \/ \E o \in MuscleOutcomes : run_alignment_muscle(i, o)
       \/ run_alignment_invalid(i)
       \/ \E readOk \in BOOLEAN, dbOk \in BOOLEAN : run_alignment_finish(i, readOk, dbOk)

\* A call runs in a worker of its own that executes the function to its
\* return: no statement of it waits for another call, every file and database
\* operation returns or raises, and the external process is taken to exit.
Fairness == \A i \in 1..MaxCalls : WF_vars(CallStep(i))

SpecFair == Init /\ [][Next]_vars /\ Fairness

\* =============================================================== claims
\* A call that went past the session lookup of lines 48-55.
Resolved(i) == calls[i].file # "None" /\ calls[i].pc # "resolve"
\* The history rows that carry a task id.
RowsOf(tid) == {k \in DOMAIN ledger : ledger[k].task_id = tid}
InputOf(i) == InputPath(calls[i].tid, calls[i].ts)
OutputOf(i) == OutputPath(calls[i].tid, calls[i].ts)
\* The input of the call is under uploads/.
Staged(i) == calls[i].tid # None /\ InputOf(i) \in uploads
\* The tool of the call exited 0 and left its alignment in the output file.
ToolSucceeded(i) ==
    /\ calls[i].tid # None
    /\ OutputOf(i) \in DOMAIN results
    /\ results[OutputOf(i)] = Alignment(calls[i].tool)
\* Call i was still running when call j was submitted.
Overlap(i, j) == i \in calls[j].pending

\* C1: every history row belongs to a call that ended Completed; a call that
\* was rejected or failed, or is still running, has no row.
C1_OnlyCompletedRecorded ==
    /\ \A k \in DOMAIN ledger :
          \E i \in Calls : /\ calls[i].tid = ledger[k].task_id
                           /\ calls[i].pc = "done"
                           /\ Kind(i) = "Done"
    /\ \A i \in Calls : Kind(i) # "Done" => RowsOf(calls[i].tid) = {}

\* One call is in the history, another failed on the read of its output.
C1_Witness ==
    /\ ledger # <<>>
    /\ \E i \in Calls : Kind(i) = "ReadFail" /\ ToolSucceeded(i)

\* The row of call i at position k carries the call's session, tool and paths.
MatchingRow(i, k) ==
    /\ ledger[k].session_id = calls[i].sid
    /\ ledger[k].tool = calls[i].tool
    /\ ledger[k].input_file = InputOf(i)
    /\ ledger[k].output_file = OutputOf(i)

\* Call i returned the alignment text, the output path and the success status.
ReturnedCompleted(i) ==
    /\ Kind(i) = "Done"
    /\ calls[i].ret.status = Msg("Done", calls[i].tool, "")
    /\ calls[i].ret.text = Msg("Result", "", Alignment(calls[i].tool))
    /\ calls[i].ret.file = OutputOf(i)
    /\ calls[i].ret.file # NonePath

\* A call with a valid file and a supported tool whose tool succeeded and
\* whose output was read.
CompletedCase(i) ==
    calls[i].pc = "done" /\ ToolSucceeded(i) /\ Kind(i) # "ReadFail"

\* C2 as stated: such a call, made when the history table exists, ends
\* Completed and has exactly one history row, with its session, tool and paths.
C2_Original ==
    \A i \in Calls : (CompletedCase(i) /\ calls[i].saveLog # "NoTable") =>
        /\ ReturnedCompleted(i)
        /\ Cardinality(RowsOf(calls[i].tid)) = 1
        /\ \A k \in RowsOf(calls[i].tid) : MatchingRow(i, k)

\* C2 amended: such a call ends Completed; it has exactly one history row,
\* with its session, tool and paths, when its INSERT succeeded, and no row
\* when the INSERT failed.
C2_CompletedRecordedOnce ==
    \A i \in Calls : CompletedCase(i) =>
        /\ ReturnedCompleted(i)
        /\ IF calls[i].saveLog = "Saved"
           THEN /\ Cardinality(RowsOf(calls[i].tid)) = 1
                /\ \A k \in RowsOf(calls[i].tid) : MatchingRow(i, k)
           ELSE RowsOf(calls[i].tid) = {}

\* The second call completed and its row was appended after the first one's.
C2_Witness ==
    /\ Len(ledger) = 2
    /\ \E i \in Calls : CompletedCase(i) /\ calls[i].saveLog = "Saved" /\ RowsOf(calls[i].tid) = {2}

\* C3: a step that adds a call without a file returns the no-file rejection
\* with no artifact, and changes nothing else: no session id is minted or
\* stored, no task id is allocated, no file is written, no process is started
\* and the history is as it was.
C3_NoFileRejected ==
    [][(Len(calls') = Len(calls) + 1 /\ calls'[Len(calls')].file = "None") =>
          /\ calls'[Len(calls')].pc = "done"
          /\ calls'[Len(calls')].ret.status = Msg("NoFile", "", "")
          /\ calls'[Len(calls')].ret.file = NonePath
          /\ calls'[Len(calls')].tid = None
          /\ calls'[Len(calls')].sid = None
          /\ calls'[Len(calls')].started = 0
          /\ SubSeq(calls', 1, Len(calls)) = calls
          /\ UNCHANGED <<ctx, uploads, results, schema, ledger, nextSid, nextTid>>]_vars

\* After a completed call of client 1, client 2 submitted without a file and
\* its dictionary still holds no session id.
C3_Witness ==
    /\ Len(calls) = 2
    /\ Kind(1) = "Done" /\ ledger # <<>>
    /\ calls[2].ctx = 2 /\ calls[2].file = "None" /\ Kind(2) = "NoFile"
    /\ ctx[2] = None

Unsupported(i) == calls[i].tool \notin SupportedTools

\* C4 as stated: a call with an unsupported tool is rejected, its input is
\* never staged and no process is started for it.
C4_Original ==
    \A i \in Calls : Unsupported(i) =>
        /\ ~Staged(i)
        /\ calls[i].started = 0
        /\ calls[i].pc = "done" => Kind(i) \in {"NoFile", "InvalidTool"}

\* C4 amended: for a call with an unsupported tool no process is ever started
\* and no output file is written; it ends with the no-file rejection, the
\* file-save failure or the invalid-tool rejection, and the invalid-tool
\* rejection comes only after the session id was resolved, the task id
\* allocated and the input staged.
C4_RejectedAfterStaging ==
    \A i \in Calls : Unsupported(i) =>
        /\ calls[i].started = 0
        /\ OutputOf(i) \notin DOMAIN results
        /\ calls[i].pc = "done" => Kind(i) \in {"NoFile", "SaveFail", "InvalidTool"}
        /\ Kind(i) = "InvalidTool" => Staged(i) /\ calls[i].sid # None

C4_Witness ==
    \E i \in Calls : Unsupported(i) /\ Kind(i) = "InvalidTool" /\ Staged(i)

\* The task each row of a history table names (the task id in the input name).
TasksListed(rows) == [k \in 1..Len(rows) |-> rows[k].input.tid]
TaskIds(cs) == [k \in 1..Len(cs) |-> cs[k].tid]
\* The completed calls of a session in submission order, and those of them
\* whose INSERT succeeded.
CompletedOf(sid) ==
    SelectSeq(calls, LAMBDA c : c.sid = sid /\ c.ret.status.kind = "Done")
RecordedOf(sid) ==
    SelectSeq(calls, LAMBDA c : c.sid = sid /\ c.ret.status.kind = "Done"
                                           /\ c.saveLog = "Saved")
\* The completed calls of a session ran one after another.
OneAfterAnother(sid) ==
    \A i, j \in Calls :
        (i < j /\ calls[i].sid = sid /\ calls[j].sid = sid
               /\ Kind(i) = "Done" /\ Kind(j) = "Done") => ~Overlap(i, j)

\* C5 as stated: the table show_history returns lists the completed tasks of
\* the session (each one recorded) in reverse submission order, the 20 most
\* recent at most, whether or not they overlapped.
C5_Original ==
    (shown.kind \in {"Table", "Empty"}
        /\ CompletedOf(shown.sid) = RecordedOf(shown.sid)) =>
        TasksListed(shown.rows) =
            Take(Reverse(TaskIds(CompletedOf(shown.sid))), HistoryLimit)

\* C5 amended: when the completed tasks of the session ran one after another,
\* the table lists those with a successful INSERT in reverse submission order,
\* the 20 most recent at most.
C5_NewestFirst ==
    (shown.kind \in {"Table", "Empty"} /\ OneAfterAnother(shown.sid)) =>
        TasksListed(shown.rows) =
            Take(Reverse(TaskIds(RecordedOf(shown.sid))), HistoryLimit)

\* More than 20 tasks of the session are recorded and 20 are listed.
C5_Witness ==
    /\ shown.kind = "Table"
    /\ Len(shown.rows) = HistoryLimit
    /\ Len(RecordedOf(shown.sid)) > HistoryLimit

\* C6: every row of a table returned for a dictionary holding session id A
\* names a task that was recorded, and run, under A.
C6_Isolation ==
    shown.kind = "Table" =>
        /\ shown.sid = StateGet(shown.ctx)
        /\ \A k \in DOMAIN shown.rows :
              /\ \A r \in RowsOf(shown.rows[k].input.tid) :
                    ledger[r].session_id = shown.sid
              /\ \E i \in Calls : /\ calls[i].tid = shown.rows[k].input.tid
                                  /\ calls[i].sid = shown.sid

\* A table was returned while the history holds a row of another session.
C6_Witness ==
    /\ shown.kind = "Table"
    /\ \E r \in DOMAIN ledger : ledger[r].session_id # shown.sid

\* The calls of a client's dictionary that resolved a session id.
OnContext(c) == {i \in Calls : calls[i].ctx = c /\ Resolved(i)}
\* The calls made with a dictionary came one after another.
Sequential(c) ==
    \A i, j \in Calls :
        (i < j /\ calls[i].ctx = c /\ calls[j].ctx = c) => ~Overlap(i, j)

\* C7: when the calls made with one dictionary come one after another, the
\* first with a file mints the session id and stores it, and every later one
\* resolves to that id, mints nothing and leaves the dictionary as it was.
C7_ResolutionIdempotent ==
    \A c \in Contexts : Sequential(c) =>
        \A i, j \in OnContext(c) :
            /\ calls[i].sid = calls[j].sid
            /\ ctx[c] = calls[i].sid
            /\ i < j => (calls[i].sid # None /\ ~calls[j].minted)

\* A failed call minted the session id and a later call of the same client
\* completed under it.
C7_Witness ==
    \E i, j \in Calls :
        /\ i < j /\ calls[i].ctx = calls[j].ctx /\ calls[i].ctx \in Contexts
        /\ ~Overlap(i, j)
        /\ calls[i].minted /\ Kind(i) \in {"SaveFail", "ToolNotFound", "ToolRunFail"}
        /\ Kind(j) = "Done" /\ calls[j].sid = calls[i].sid

\* The history rows of the tasks that were submitted with dictionary c.
RowsOfContext(c) ==
    {k \in DOMAIN ledger :
        \E i \in Calls : calls[i].ctx = c /\ calls[i].tid = ledger[k].task_id}

\* C8: all tasks submitted with one dictionary are recorded under one session
\* id, the one the dictionary holds.
C8_SingleIdentity ==
    \A c \in Contexts : \A k \in RowsOfContext(c) : ledger[k].session_id = ctx[c]

\* C9: a step in which show_history returns leaves the dictionaries, the
\* calls, the files and the history as they were and mints nothing; for a
\* dictionary without a session id it returns the no-session message and has
\* not queried the table.
C9_HistoryReadOnly ==
    [][shown' # NoShown =>
          /\ UNCHANGED <<ctx, calls, uploads, results, schema, ledger, nextSid, nextTid>>
          /\ StateGet(shown'.ctx) = None =>
                (shown'.kind = "NoSession" /\ ~shown'.queried)
          /\ shown'.kind # "NoSession" => shown'.sid = StateGet(shown'.ctx)]_vars

\* The no-session message was returned to a client while the history holds
\* rows of another client.
C9_Witness ==
    /\ shown.kind = "NoSession" /\ shown.ctx \in Contexts
    /\ ledger # <<>>

\* The tool step of call i with outcome o, a non-zero exit.
FailingExit(i, o) ==
    /\ o.kind = "Exit" /\ o.rc # 0
    /\ run_alignment_mafft(i, o) \/ run_alignment_muscle(i, o)

\* C10 as stated: a non-zero exit ends the call Failed, with the stderr text
\* as the detail when there is some and the exit code otherwise.
C10_Original ==
    [][\A i \in Calls, o \in MafftOutcomes \cup MuscleOutcomes :
          FailingExit(i, o) =>
             /\ calls'[i].pc = "done"
             /\ calls'[i].ret.status = Msg("ToolRunFail", calls[i].tool, "")
             /\ calls'[i].ret.text.detail =
                   IF o.err # "" THEN o.err ELSE ReturnCodeText(o.rc)]_vars

\* C10 amended: the detail is the stderr text when there is some; otherwise
\* the stdout text MUSCLE printed, when there is some (MAFFT's stdout goes to
\* the output file and is never the detail); otherwise the exit code.
C10_FailureDetail ==
    [][\A i \in Calls, o \in MafftOutcomes \cup MuscleOutcomes :
          FailingExit(i, o) =>
             /\ calls'[i].pc = "done"
             /\ calls'[i].ret.status = Msg("ToolRunFail", calls[i].tool, "")
             /\ calls'[i].ret.file = NonePath
             /\ calls'[i].ret.text.detail =
                   IF o.err # "" THEN o.err
                   ELSE IF calls[i].tool = "MUSCLE" /\ o.out # "" THEN o.out
                   ELSE ReturnCodeText(o.rc)]_vars

\* MUSCLE exited non-zero with empty stderr and the call returned its stdout.
C10_Witness ==
    \E i \in Calls :
        /\ calls[i].tool = "MUSCLE" /\ Kind(i) = "ToolRunFail"
        /\ calls[i].started = 1
        /\ calls[i].ret.text.detail = "O"

\* The tool step of call i with outcome o.
ToolStep(i, o) == run_alignment_mafft(i, o) \/ run_alignment_muscle(i, o)

\* C11: a tool step ends with the tool-not-found failure, naming the selected
\* tool, exactly when the executable of the tool was not found: a missing
\* executable always gives it, and no other failure does.
C11_ToolNotFoundExact ==
    [][\A i \in Calls, o \in MafftOutcomes \cup MuscleOutcomes :
          ToolStep(i, o) =>
             (calls'[i].ret.status = Msg("ToolNotFound", calls[i].tool, "")
                 <=> o.kind = "ExecNotFound")]_vars

\* The calls whose history append failed: save_to_db logged the error.
AppendFailed == {i \in Calls : calls[i].saveLog \in {"NoTable", "DbError"}}

\* C12: a call whose history append failed has returned the Completed result
\* all the same (the alignment text, the output path and the success status),
\* and the history holds no row of it.
C12_AppendFailureKept ==
    \A i \in AppendFailed :
        /\ calls[i].pc = "done"
        /\ ReturnedCompleted(i)
        /\ calls[i].ret = Ret(Msg("Result", "", results[OutputOf(i)]), OutputOf(i),
                              Msg("Done", calls[i].tool, ""))
        /\ RowsOf(calls[i].tid) = {}

\* The table exists and holds the row of one call; the append of another
\* call failed and that call returned its result.
C12_Witness ==
    /\ schema /\ Len(ledger) = 1
    /\ \E i \in AppendFailed : calls[i].saveLog = "DbError" /\ ReturnedCompleted(i)

\* The statuses of a failed task.
FailedKinds == {"SaveFail", "ToolNotFound", "ToolRunFail", "AlignException", "ReadFail"}
\* Call i came with a file and a supported tool.
ValidSubmission(i) == calls[i].file # "None" /\ calls[i].tool \in SupportedTools

\* C13: every call with a file and a supported tool eventually returns, as
\* Completed or as Failed; a call has a status exactly when it has returned;
\* and a call that has returned never changes again.
C13_Terminates ==
    /\ \A i \in 1..MaxCalls :
          [](i \in Calls /\ ValidSubmission(i)
                => <>(i \in Calls /\ calls[i].pc = "done"
                                  /\ Kind(i) \in {"Done"} \cup FailedKinds))
    /\ [](\A i \in Calls : calls[i].pc = "done" <=> Kind(i) # "Pending")
    /\ [][\A i \in Calls : calls[i].pc = "done" => calls'[i] = calls[i]]_vars

\* Two calls with a file and a supported tool overlapped; one has completed
\* and the other has failed on its tool.
C13_Witness ==
    \E i, j \in Calls :
        /\ i < j /\ Overlap(i, j)
        /\ ValidSubmission(i) /\ ValidSubmission(j)
        /\ calls[i].pc = "done" /\ calls[j].pc = "done"
        /\ Kind(i) = "ToolRunFail" /\ Kind(j) = "Done"

\* The rows of a session in a ledger, in insertion order.
SessionRows(l, sid) == SelectSeq(l, LAMBDA r : r.session_id = sid)
IsPrefix(s, t) == Len(s) <= Len(t) /\ SubSeq(t, 1, Len(s)) = s

\* C14: every step leaves the rows the history holds as they are and in their
\* order, and adds at most one row, at the end, with the next id; the same
\* holds of the rows of each session.
C14_AppendOnly ==
    [][/\ IsPrefix(ledger, ledger')
       /\ Len(ledger') <= Len(ledger) + 1
       /\ \A k \in DOMAIN ledger' : ledger'[k].id = k
       /\ \A sid \in 1..nextSid :
             IsPrefix(SessionRows(ledger, sid), SessionRows(ledger', sid))]_vars

\* The history holds two rows of one session and show_history has listed both.
C14_Witness ==
    /\ Len(ledger) = 2
    /\ ledger[1].session_id = ledger[2].session_id
    /\ shown.kind = "Table" /\ Len(shown.rows) = 2

\* The calls that were given a task id.
Tasks == {i \in Calls : calls[i].tid # None}

\* C15: two tasks never have the same task id, nor the same input path or
\* output path, and no two history rows carry the same task id.
C15_TaskIdsUnique ==
    /\ \A i, j \in Tasks :
          i # j => /\ calls[i].tid # calls[j].tid
                   /\ InputOf(i) # InputOf(j)
                   /\ OutputOf(i) # OutputOf(j)
    /\ \A k, l \in DOMAIN ledger : k # l => ledger[k].task_id # ledger[l].task_id

\* Two calls of the same second overlapped, each wrote its input and its
\* output, and both are in the history.
C15_Witness ==
    \E i, j \in Tasks :
        /\ i < j /\ Overlap(i, j) /\ calls[i].ts = calls[j].ts
        /\ Staged(i) /\ Staged(j) /\ ToolSucceeded(i) /\ ToolSucceeded(j)
        /\ RowsOf(calls[i].tid) # {} /\ RowsOf(calls[j].tid) # {}

\* C16: the history table exists whenever the service uses it: no call's
\* INSERT has met a missing table, and a query of show_history finds the table.
C16_SchemaBeforeUse ==
    /\ \A i \in Calls : calls[i].saveLog # "NoTable"
    /\ shown.queried => schema

\* The history holds no row of the session dictionary c holds.
NothingRecorded(c) == SessionRows(ledger, StateGet(c)) = <<>>

\* C17 as stated: with the history table in place, show_history for a session
\* of which nothing is recorded returns a no-history message, never an error
\* of the store.
C17_Original ==
    (shown.kind # "NotCalled" /\ schema /\ NothingRecorded(shown.ctx)) =>
        shown.kind \in {"NoSession", "Empty"}

\* C17 amended: show_history for a session of which nothing is recorded
\* returns the no-history message without a session id when the dictionary
\* holds none, the no-history message of the session when the query went
\* through, and the could-not-load message when the query raised (the table
\* is missing or the database failed).
C17_NoHistoryMessage ==
    [][\A c \in Contexts \cup {NoneState}, dbOk \in BOOLEAN :
          (show_history(c, dbOk) /\ NothingRecorded(c)) =>
              shown'.kind = IF StateGet(c) = None THEN "NoSession"
                            ELSE IF schema /\ dbOk THEN "Empty"
                            ELSE "DbError"]_vars

\* The session was minted by a call that failed, the history holds rows of
\* another session, and show_history returned the no-history message.
C17_Witness ==
    /\ shown.kind = "Empty" /\ ledger # <<>>
    /\ \E i \in Calls : /\ calls[i].ctx = shown.ctx /\ calls[i].minted
                        /\ calls[i].sid = shown.sid
                        /\ Kind(i) \in FailedKinds

\* C18: at most one process is started for a call, and only for a call whose
\* input was staged; a call before its tool step has started none; a call
\* whose staging failed ends with the file-save failure, has started no
\* process and has no output file.
C18_ToolAtMostOnce ==
    \A i \in Calls :
        /\ calls[i].started <= 1
        /\ calls[i].started = 1 =>
              /\ calls[i].file = "Ok" /\ Staged(i)
              /\ calls[i].pc \in {"ran", "done"}
              /\ Kind(i) # "SaveFail"
        /\ calls[i].pc \in {"resolve", "staged"} => calls[i].started = 0
        /\ Kind(i) = "SaveFail" =>
              /\ calls[i].started = 0
              /\ calls[i].pc = "done"
              /\ calls[i].ret.file = NonePath
              /\ OutputOf(i) \notin DOMAIN results

\* The staging of one call failed after its input path was created, and the
\* tool of another call ran once and failed.
C18_Witness ==
    \E i, j \in Calls :
        /\ Kind(i) = "SaveFail" /\ InputOf(i) \in uploads /\ calls[i].started = 0
        /\ Kind(j) = "ToolRunFail" /\ calls[j].started = 1

\* C19: calls made with a None state one after another resolve to one session
\* id, and show_history with a None state, made after a task of such a call
\* was recorded, lists that task.
C19_NoneContextStored ==
    /\ \A i, j \in Calls :
          (/\ i < j /\ ~Overlap(i, j)
           /\ calls[i].ctx = NoneState /\ calls[j].ctx = NoneState
           /\ Resolved(i) /\ Resolved(j)) => calls[i].sid = calls[j].sid
    /\ (shown.kind # "NotCalled" /\ shown.ctx = NoneState
          /\ RowsOfContext(NoneState) # {}) => shown.kind \in {"Table", "DbError"}

\* C20: a file is under results/ for a call only when the tool of the call
\* succeeded, and a call that was rejected, or failed before or in its tool
\* step, has no file there.
C20_OutputOnlyOnSuccess ==
    \A i \in Calls :
        /\ OutputOf(i) \in DOMAIN results => ToolSucceeded(i)
        /\ Kind(i) \in {"NoFile", "InvalidTool", "SaveFail", "ToolNotFound",
                        "ToolRunFail", "AlignException"}
              => OutputOf(i) \notin DOMAIN results
====
